---- MODULE Spec2Model ----
(***************************************************************************)
(* Model of the module acquisition pipeline of batch-weidu (modda):        *)
(*   src/src/get_module.rs        ModuleDownload::get_module               *)
(*   src/src/archive_extractor.rs Extractor::extract_files and helpers     *)
(* One behaviour is one call of get_module for one module.                 *)
(***************************************************************************)
EXTENDS Integers, Sequences, FiniteSets, TLC

(***************************************************************************)
(* Bounds of the model.                                                    *)
(***************************************************************************)
\* largest strip depth of a layout that is explored
MaxStrip == 1
\* largest number of replace specs of a location that is explored
MaxReplace == 2
\* the longest list of file origins of one copy_from_origins call
MaxOrigins == 2

(***************************************************************************)
(* Text.  A file name or an extension is a tuple of one-character strings, *)
(* so that the case of a character and the position of a dot are visible.  *)
(***************************************************************************)
None == <<>>
Some(x) == <<x>>

\* str::to_lowercase on one character (the characters used by the model)
LowerChar(c) ==
  CASE c = "A" -> "a" [] c = "I" -> "i" [] c = "P" -> "p" [] c = "R" -> "r"
    [] c = "T" -> "t" [] c = "Z" -> "z" [] OTHER -> c

\* crate::lowercase::lwc! : the lower-cased copy of a string
lwc(s) == [i \in 1..Len(s) |-> LowerChar(s[i])]

\* position of the last '.' of a file name, 0 when there is none
LastDot(s) ==
  LET dots == {i \in 1..Len(s) : s[i] = "."}
  IN  IF dots = {} THEN 0 ELSE CHOOSE i \in dots : \A j \in dots : j <= i

\* std::path::Path::extension of a file name: None without a dot, None when
\* the only dot is the first character, None for "..", else what follows
\* the last dot
Extension(s) ==
  IF s = <<".", ".">> \/ LastDot(s) <= 1
  THEN None
  ELSE Some(SubSeq(s, LastDot(s) + 1, Len(s)))

\* std::path::Path::file_stem of a file name
FileStem(s) ==
  IF Len(s) = 0 THEN None
  ELSE IF s = <<".", ".">> \/ LastDot(s) <= 1 THEN Some(s)
  ELSE Some(SubSeq(s, 1, LastDot(s) - 1))

\* the archive file names retrieval can yield
ArchiveNames ==
  { <<"m", ".", "z", "i", "p">>,
    <<"m", ".", "Z", "I", "P">>,
    <<"m", ".", "i", "e", "m", "o", "d">>,
    <<"m", ".", "t", "g", "z">>,
    <<"m", ".", "t", "a", "r", ".", "g", "z">>,
    <<"m", ".", "T", "A", "R", ".", "g", "z">>,
    <<".", "t", "a", "r", ".", "g", "z">>,
    <<"m", ".", "g", "z">>,
    <<".", "g", "z">>,
    <<"m", ".", "r", "a", "r">>,
    <<"m", ".", "R", "A", "R">>,
    <<"m", ".", "7", "z">>,
    <<"m", ".">>,
    <<"m">> }

\* an archive path: its file name, whether the extension is valid text
\* (OsStr::to_str) and whether the whole path is
Archives ==
  [name : ArchiveNames, extText : {TRUE}, pathText : {TRUE}]
    \cup [name : {<<"m", ".", "z", "i", "p">>, <<"m", ".", "r", "a", "r">>},
          extText : BOOLEAN, pathText : {FALSE}]

NoArchive == [name |-> <<>>, extText |-> TRUE, pathText |-> TRUE]


(***************************************************************************)
(* Configuration: config.extractors, keyed by LwcString (lower case).      *)
(* An argument of an extractor command is a tuple of tokens; the two       *)
(* placeholders are tokens of their own.                                   *)
(***************************************************************************)
InputPh == "${input}"
TargetPh == "${target}"
\* what the placeholders are replaced by
ArchivePath == "<archive>"
TempPath == "<tempdir>"

RarKey == <<"r", "a", "r">>
SevenKey == <<"7", "z">>

NoExtractors == [k \in {} |-> <<>>]
SplitExtractors ==
  [k \in {RarKey, SevenKey} |->
     IF k = RarKey
     THEN << <<"x">>, <<InputPh>>, <<"-o", TargetPh>> >>
     ELSE << <<"x">>, <<"-y">> >>]
JoinedExtractors ==
  [k \in {RarKey} |-> << <<"x">>, <<"-o", TargetPh, "<", InputPh>> >>]

ExtractorConfigs == {NoExtractors, SplitExtractors, JoinedExtractors}

\* str::contains for a placeholder
Contains(arg, ph) == \E i \in 1..Len(arg) : arg[i] = ph
\* str::replace of a placeholder
Replace(arg, ph, by) == [i \in 1..Len(arg) |-> IF arg[i] = ph THEN by ELSE arg[i]]

(***************************************************************************)
(* Directory trees.  An entry is its path below the root of the tree, a    *)
(* tuple of names; the depth of an entry is the length of its path.        *)
(***************************************************************************)
\* the names that are directories
IsDirName(n) == n \in {"w", "Data"}
IsDir(p) == IsDirName(p[Len(p)])

\* a github-style archive: everything below one wrapper directory, and a
\* stray file next to it
WrappedTree ==
  { <<"w">>, <<"w", "Data">>, <<"w", "Data", "a.txt">>, <<"w", "readme">>,
    <<"readme">> }
\* a release-style archive
FlatTree == { <<"Data">>, <<"Data", "a.txt">>, <<"readme">> }

\* what a successful unpack can leave in the temp directory
Trees == {WrappedTree, FlatTree}
\* what a failed unpack can leave there
PartialTrees == {{}, {<<"w">>}}

\* the destination tree before the call
DestTrees ==
  {{}, {<<"readme">>}, {<<"Data">>}, {<<"Data">>, <<"Data", "a.txt">>}}

\* the directories of the machine: the game directory the Extractor was
\* built with, and another one
GameDir == "game"
Dirs == {GameDir, "elsewhere"}

IsPrefix(p, q) == Len(p) < Len(q) /\ SubSeq(q, 1, Len(p)) = p
\* the entries of tree t strictly below directory p
Below(t, p) == {q \in t : IsPrefix(p, q)}
\* where entry q, at or below the moved item p, lands in the destination
Rebase(p, q) == <<p[Len(p)]>> \o SubSeq(q, Len(p) + 1, Len(q))

(***************************************************************************)
(* Glob patterns.  A pattern is a tuple of tokens: a name, "*", "/" or a   *)
(* blank " ".                                                              *)
(***************************************************************************)
LowerName(n) == IF n = "Data" THEN "data" ELSE n

\* str::trim().is_empty()
IsBlank(pat) == \A i \in 1..Len(pat) : pat[i] = " "

\* globwalk's normalize_pattern: a lone "*" is anchored at the root
NormalizePattern(pat) == IF pat = <<"*">> THEN <<"/", "*">> ELSE pat

\* gitignore: a separator at the beginning or in the middle anchors the
\* pattern at the root
Anchored(pat) == \E i \in 1..(Len(pat) - 1) : pat[i] = "/"

RECURSIVE Segments(_)
\* the path segments of a pattern
Segments(pat) ==
  IF pat = <<>> THEN <<>>
  ELSE IF Head(pat) = "/" THEN Segments(Tail(pat))
  ELSE <<Head(pat)>> \o Segments(Tail(pat))

\* one segment against one name, case-insensitively
SegMatch(seg, name) == seg = "*" \/ LowerName(seg) = LowerName(name)

\* does the pattern match the path (relative to the walked root)
PatternMatches(pat, path) ==
  LET np == NormalizePattern(pat)
      segs == Segments(np)
  IN  /\ ~IsBlank(pat)
      /\ segs # <<>>
      /\ IF Anchored(np)
         THEN /\ Len(segs) = Len(path)
              /\ \A i \in 1..Len(segs) : SegMatch(segs[i], path[i])
         ELSE SegMatch(segs[1], path[Len(path)])

\* the pattern sets a layout can produce
PatternSets ==
  { {},
    {<<" ">>, <<>>},
    {<<"*">>},
    {<<"data">>, <<" ">>},
    {<<"*", "/", "data">>, <<"*", "/", "readme">>},
    {<<"readme">>} }


(***************************************************************************)
(* State of one get_module call.                                           *)
(***************************************************************************)
(***************************************************************************)
(* Paths.  A path is a flag (it starts at the root) and its components as  *)
(* written, "." and ".." included.                                         *)
(***************************************************************************)
Rel(comps) == [abs |-> FALSE, comps |-> comps]
Abs(comps) == [abs |-> TRUE, comps |-> comps]
\* PathBuf::new()
EmptyPath == Rel(<<>>)

RECURSIVE DropCurDir(_)
DropCurDir(comps) ==
  IF comps = <<>> THEN <<>>
  ELSE IF Head(comps) = "." THEN DropCurDir(Tail(comps))
       ELSE <<Head(comps)>> \o DropCurDir(Tail(comps))

\* Path::components: "." is kept only at the start of a relative path
Components(p) ==
  IF ~p.abs /\ p.comps # <<>> /\ Head(p.comps) = "."
  THEN <<".">> \o DropCurDir(Tail(p.comps))
  ELSE DropCurDir(p.comps)

\* PathBuf == PathBuf compares the components
PathEq(p, q) == p.abs = q.abs /\ Components(p) = Components(q)

IsAbsolute(p) == p.abs

\* Path::starts_with("..")
StartsWithParent(p) ==
  ~p.abs /\ Components(p) # <<>> /\ Head(Components(p)) = ".."

\* Path::join: an absolute right side replaces the left side
Join(p, q) == IF q.abs THEN q ELSE [abs |-> p.abs, comps |-> p.comps \o q.comps]

\* Path::parent: None for the root and for the empty path
Parent(p) ==
  LET c == Components(p)
  IN IF c = <<>> THEN None
     ELSE Some([abs |-> p.abs, comps |-> SubSeq(c, 1, Len(c) - 1)])

RECURSIVE CleanComps(_, _, _)
\* path_clean, component by component: out is the cleaned prefix
CleanComps(isAbs, comps, out) ==
  IF comps = <<>> THEN out
  ELSE LET c == Head(comps)
           rest == Tail(comps)
       IN IF c = "." THEN CleanComps(isAbs, rest, out)
          ELSE IF c = ".."
               THEN IF out # <<>> /\ out[Len(out)] # ".."
                    THEN CleanComps(isAbs, rest, SubSeq(out, 1, Len(out) - 1))
                    ELSE IF isAbs THEN CleanComps(isAbs, rest, out)
                         ELSE CleanComps(isAbs, rest, out \o <<"..">>)
               ELSE CleanComps(isAbs, rest, out \o <<c>>)

\* PathClean::clean: the empty relative result is "."
Clean(p) ==
  LET c == CleanComps(p.abs, p.comps, <<>>)
  IN IF ~p.abs /\ c = <<>> THEN Rel(<<".">>) ELSE [abs |-> p.abs, comps |-> c]

(***************************************************************************)
(* Results, and the sources of a location.                                 *)
(***************************************************************************)
NotYet == <<"none">>
Err == <<"err">>
Ok(value) == <<"ok", value>>
IsOk(r) == r[1] = "ok"

\* url::Url::parse on the texts of UrlTexts: a text is its tokens
Schemes == {"http:", "file:", "mailto:"}
SpecialSchemes == {"http:", "file:"}

\* the host as Url::host() gives it and as it is printed: a domain is
\* lower-cased
ParseHost(h) ==
  CASE h = "Example.COM" -> "example.com"
    [] OTHER -> h

RECURSIVE UpTo(_, _)
\* the tokens of text before the first token of stops
UpTo(text, stops) ==
  IF text = <<>> \/ Head(text) \in stops THEN <<>>
  ELSE <<Head(text)>> \o UpTo(Tail(text), stops)

\* text from its first token of stops on
From(text, stops) == SubSeq(text, Len(UpTo(text, stops)) + 1, Len(text))

RECURSIVE SplitPath(_)
\* str::split('/') on a path without its leading slash
SplitPath(path) ==
  LET seg == UpTo(path, {"/"})
      rest == From(path, {"/"})
  IN IF rest = <<>> THEN <<seg>> ELSE <<seg>> \o SplitPath(Tail(rest))

ParseError == [ok |-> FALSE, host |-> None, segments |-> None]

\* Url::parse, with host() and path_segments() of the parsed url
UrlParse(text) ==
  IF text = <<>> \/ Head(text) \notin Schemes THEN ParseError
  ELSE IF Head(text) \notin SpecialSchemes
       THEN [ok |-> TRUE, host |-> None, segments |-> None]
       ELSE LET afterScheme == Tail(text)
                rest == IF afterScheme # <<>> /\ Head(afterScheme) = "//"
                        THEN Tail(afterScheme) ELSE afterScheme
                authority == UpTo(rest, {"/", "?"})
                path == UpTo(From(rest, {"/"}), {"?"})
                segments == IF path = <<>> THEN <<<<>>>>
                            ELSE SplitPath(Tail(path))
            IN IF authority = <<>>
               THEN IF Head(text) = "file:"
                    THEN [ok |-> TRUE, host |-> None,
                          segments |-> Some(segments)]
                    ELSE ParseError
               ELSE [ok |-> TRUE, host |-> Some(ParseHost(authority[1])),
                     segments |-> Some(segments)]

\* percent_decode_str(..).decode_utf8_lossy() on one token
DecodeToken(t) ==
  CASE t = "%20" -> " "
    [] t = "%2F" -> "/"
    [] t = "%FF" -> "U+FFFD"
    [] OTHER -> t

PercentDecode(seg) == [i \in 1..Len(seg) |-> DecodeToken(seg[i])]

UrlTexts ==
  { <<"http:", "//", "example.com", "/", "dir", "/", "pkg_v1.zip">>,
    <<"http:", "//", "Example.COM", "/", "my", "%20", "mod.zip">>,
    <<"http:", "//", "127.0.0.1", "/", "a", "%2F", "b.zip", "?", "v=1">>,
    <<"http:", "//", "example.com">>,
    <<"http:", "//", "example.com", "/", "dir", "/">>,
    <<"http:", "//">>,
    <<"http:", "//", "example.com", "/", "bad", "%FF", ".zip">>,
    <<"file:", "//", "/", "tmp", "/", "x.zip">>,
    <<"mailto:", "someone">>,
    <<"example.com", "/", "x.zip">> }

Renames == {None, Some(<<"renamed.zip">>)}

HttpSources ==
  {[kind |-> "Http", http |-> u, rename |-> r] : u \in UrlTexts, r \in Renames}

Descriptors ==
  { [kind |-> "Release", ref |-> <<"repository_v1.zip">>],
    [kind |-> "Commit", ref |-> <<"0a1b2c">>],
    [kind |-> "Branch", ref |-> <<"main">>],
    [kind |-> "Tag", ref |-> <<"v2">>] }

GithubSources ==
  {[kind |-> "Github", github_user |-> "u", repository |-> r, descriptor |-> d] :
     r \in {"r", "s"}, d \in Descriptors}

AbsolutePaths ==
  {Abs(<<"some", "path", "file.zip">>), Abs(<<"some", ".", "x", "..", "file.zip">>),
   Rel(<<"not", "absolute.zip">>)}

AbsoluteSources == {[kind |-> "Absolute", path |-> p] : p \in AbsolutePaths}

LocalPaths ==
  {Rel(<<"some", "path", "file.zip">>), Rel(<<"a", ".", "b", "..", "file.zip">>),
   Rel(<<"..", "file.zip">>), Abs(<<"etc", "file.zip">>), EmptyPath}

LocalSources == {[kind |-> "Local", local |-> p] : p \in LocalPaths}

Sources == HttpSources \cup GithubSources \cup AbsoluteSources \cup LocalSources

\* the source of a call that resolves nothing
NoSource == [kind |-> "none"]

ModuleNames == {"m1", "m2"}

\* global.local_mods
LocalModsValues ==
  {None, Some(Rel(<<"my_mods">>)), Some(Rel(<<".", "my_mods", "x", "..">>)),
   Some(Abs(<<"mods">>)), Some(Rel(<<"..", "mods">>)),
   Some(Rel(<<"a", "..", "..", "mods">>)), Some(Rel(<<"x", "..">>))}

\* opts.manifest_path
ManifestPaths ==
  {Abs(<<"home", "me", "my_install.yaml">>), Rel(<<"my_install.yaml">>),
   Abs(<<"home", ".", "me", "..", "my_install.yaml">>), Abs(<<>>)}

GameDirPath == Abs(<<"games", "bg2">>)
CachePath == Abs(<<"cache_path">>)

VARIABLES
  hasLocation,    \* module.location is Some
  precopy,        \* location.precopy is Some
  patterns,       \* the patterns of location.layout.to_glob(..)
  strip,          \* the strip depth of location.layout.to_glob(..)
  replaceSpecs,   \* location.replace: None or Some(number of specs)
  extractors,     \* config.extractors
  dest0,          \* the destination tree (game dir) before the call
  pc,             \* where the call is
  stages,         \* the stages started so far, in order
  outcomes,       \* the results of the stages finished so far, in order
  result,         \* what get_module returned: "none" until it returns
  archive,        \* the archive path retrieve_location yielded
  route,          \* the branch _extract_files took
  extractResult,  \* what extract_files returns: "none", "ok" or an error
  tempDir,        \* the TempDir of this extraction: "none", "exists", "removed"
  tempText,       \* the temp dir path is valid text
  tempTree,       \* the entries of the temp directory
  precopyStatus,  \* the pre-copy command: "notrun", "success", "nonzero", "spawnfail"
  toolStatus,     \* the external extractor: "notrun", "success", "nonzero", "spawnfail"
  toolArgs,       \* the arguments the external extractor was run with
  items,          \* the entries files_to_move selected
  pending,        \* the selected entries move_items has not moved yet
  dest,           \* the destination tree
  replaced,       \* the number of replace specs executed
  selTree,        \* the temp tree as files_to_move walked it
  extractDir,     \* the directory move_items moved into, "none" before
  clobbered,      \* the destination paths whose content a move replaced
  cwd,            \* the canonicalized current directory, "none" before
  patchDir,       \* the directory patch_module was run against
  specLog,        \* the replace specs executed: index, directory, outcome
  source,         \* location.source, NoSource outside retrieve_location
  moduleName,     \* module.name
  localMods,      \* global.local_mods
  manifestPath,   \* opts.manifest_path
  rpc,            \* where retrieve_location is, "idle" outside it
  subdirRes,      \* what source.save_subdir() returned
  nameRes,        \* what source.save_name(&module.name) returned
  downloads,      \* the calls of the downloader, with what each yielded
  retrieved,      \* what retrieve_location returned
  stripDefault,   \* what source.default_strip_leading() returned
  origins,        \* the origins given to copy_from_origins
  localFiles,     \* global.local_files
  allowOverwrite, \* the allow_overwrite argument
  targetAbsent0,  \* the target directory does not exist before the call
  target0,        \* the files of the target before the call, with content
  ipc,            \* where copy_from_origins is, "idle" outside it
  bases,          \* the results of get_origin_base, in list order
  target,         \* the files of the target, with content
  current,        \* the index of the origin copy_from_globs is at
  jobs,           \* the file copies the current copy_items has still to do
  copyOverwrite,  \* CopyOptions.overwrite of the current copy_items
  copyLog,        \* the file copies attempted, in order
  fsAccess,       \* the filesystem calls made outside the copies
  installed       \* what copy_from_origins returned

vars ==
  <<hasLocation, precopy, patterns, strip, replaceSpecs, extractors, dest0,
    pc, stages, outcomes, result, archive, route, extractResult, tempDir,
    tempText, tempTree, precopyStatus, toolStatus, toolArgs, items, pending,
    dest, replaced, selTree, extractDir, clobbered, cwd, patchDir, specLog,
    source, moduleName, localMods, manifestPath, rpc, subdirRes, nameRes,
    downloads, retrieved, stripDefault,
    origins, localFiles, allowOverwrite, targetAbsent0, target0, ipc, bases,
    target, current, jobs, copyOverwrite, copyLog, fsAccess, installed>>

\* the inputs of the call: the module, the configuration, the initial tree
\* the source of the location and the state of retrieve_location
locationVars == <<source, moduleName, localMods, manifestPath>>
resolveVars == <<rpc, subdirRes, nameRes, downloads, retrieved, stripDefault>>
\* the arguments and the state of copy_from_origins
originVars == <<origins, localFiles, allowOverwrite, targetAbsent0, target0>>
copyVars ==
  <<ipc, bases, target, current, jobs, copyOverwrite, copyLog, fsAccess,
    installed>>
inputVars ==
  <<hasLocation, precopy, patterns, strip, replaceSpecs, extractors, dest0,
    locationVars, resolveVars, originVars, copyVars>>
\* the state of get_module outside the extractor
orchVars == <<stages, outcomes, result, archive, replaced, cwd, patchDir, specLog>>
\* the directories get_module works in and what it ran there
dirVars == <<cwd, patchDir, specLog>>
\* the state of the extractor
tempVars == <<tempDir, tempText, tempTree>>
commandVars == <<precopyStatus, toolStatus, toolArgs>>
moveVars == <<items, pending, dest, selTree, extractDir, clobbered>>

\* retrieve_location is not looked into
ResolveIdle ==
  /\ source = NoSource
  /\ moduleName = "m1"
  /\ localMods = None
  /\ manifestPath = Abs(<<>>)
  /\ rpc = "idle"
  /\ subdirRes = NotYet
  /\ nameRes = NotYet
  /\ downloads = <<>>
  /\ retrieved = NotYet
  /\ stripDefault = None

\* copy_from_origins is not looked into
InstallIdle ==
  /\ origins = <<>>
  /\ localFiles = None
  /\ allowOverwrite = FALSE
  /\ targetAbsent0 = FALSE
  /\ target0 = {}
  /\ ipc = "idle"
  /\ bases = <<>>
  /\ target = {}
  /\ current = 0
  /\ jobs = {}
  /\ copyOverwrite = FALSE
  /\ copyLog = <<>>
  /\ fsAccess = <<>>
  /\ installed = NotYet

Init ==
  /\ ResolveIdle
  /\ InstallIdle
  /\ hasLocation \in BOOLEAN
  /\ precopy \in (IF hasLocation THEN BOOLEAN ELSE {FALSE})
  /\ patterns \in (IF hasLocation THEN PatternSets ELSE {{}})
  /\ strip \in (IF hasLocation THEN 0..MaxStrip ELSE {0})
  /\ replaceSpecs \in
       (IF hasLocation THEN {None} \cup {Some(n) : n \in 0..MaxReplace}
        ELSE {None})
  /\ extractors \in ExtractorConfigs
  /\ dest0 \in DestTrees
  /\ pc = "start"
  /\ stages = <<>>
  /\ outcomes = <<>>
  /\ result = "none"
  /\ archive = NoArchive
  /\ route = "none"
  /\ extractResult = "none"
  /\ tempDir = "none"
  /\ tempText = TRUE
  /\ tempTree = {}
  /\ precopyStatus = "notrun"
  /\ toolStatus = "notrun"
  /\ toolArgs = <<>>
  /\ items = {}
  /\ pending = {}
  /\ dest = dest0
  /\ replaced = 0
  /\ selTree = {}
  /\ extractDir = "none"
  /\ clobbered = {}
  /\ cwd = "none"
  /\ patchDir = "none"
  /\ specLog = <<>>

(***************************************************************************)
(* get_module: the stages before the extraction.                           *)
(***************************************************************************)
\* get_module returns the error of a stage
Bail(stageOutcome) ==
  /\ outcomes' = outcomes \o stageOutcome
  /\ result' = "err"
  /\ pc' = "done"

\* NoLocation, if a module without location counted as nothing to do
NoLocation_ok ==
  /\ pc = "start"
  /\ ~hasLocation
  /\ result' = "ok"
  /\ pc' = "done"
  /\ UNCHANGED <<inputVars, stages, outcomes, archive, replaced, dirVars, route,
                 extractResult, tempVars, commandVars, moveVars>>

\* module.location is None
NoLocation ==
  /\ pc = "start"
  /\ ~hasLocation
  /\ result' = "err"
  /\ pc' = "done"
  /\ UNCHANGED <<inputVars, stages, outcomes, archive, replaced, dirVars, route,
                 extractResult, tempVars, commandVars, moveVars>>

\* retrieve_location(..).await : the downloader or a local path
retrieve_location ==
  /\ pc = "start"
  /\ hasLocation
  /\ stages' = Append(stages, "Retrieve")
  /\ \/ /\ Bail(<<"err">>)
        /\ UNCHANGED archive
     \/ /\ archive' \in Archives
        /\ outcomes' = Append(outcomes, "ok")
        /\ pc' = "current_dir"
        /\ UNCHANGED result
  /\ UNCHANGED <<inputVars, replaced, dirVars, route, extractResult, tempVars,
                 commandVars, moveVars>>

\* std::env::current_dir()? and CanonPath::new(dest)?
CurrentDir ==
  /\ pc = "current_dir"
  /\ \/ /\ Bail(<<>>)
        /\ UNCHANGED cwd
     \/ /\ cwd' \in Dirs
        /\ pc' = "extract_files"
        /\ UNCHANGED <<outcomes, result>>
  /\ UNCHANGED <<inputVars, stages, archive, replaced, patchDir, specLog, route, extractResult,
                 tempVars, commandVars, moveVars>>

(***************************************************************************)
(* Extractor::extract_files                                                *)
(***************************************************************************)
Zip == <<"z", "i", "p">>
Iemod == <<"i", "e", "m", "o", "d">>
Tgz == <<"t", "g", "z">>
Gz == <<"g", "z">>
Tar == <<"t", "a", "r">>

\* ExtractDispatch, if the extension were compared without regard to case
ExtractDispatch_nocase(a) ==
  LET ext == Extension(a.name)
  IN  IF ext = None THEN "NoExtension"
      ELSE IF ~a.extText THEN "Undeterminable"
      ELSE IF lwc(ext[1]) \in {Zip, Iemod} THEN "zip"
      ELSE IF lwc(ext[1]) = Tgz THEN "tgz"
      ELSE IF lwc(ext[1]) = Gz
           THEN LET stem == FileStem(a.name)
                IN  IF stem = None THEN "UnsupportedGz"
                    ELSE IF Extension(stem[1]) = Some(Tar) THEN "tgz"
                    ELSE "UnsupportedGz"
      ELSE "external"

\* the match of _extract_files on the extension of the archive
ExtractDispatch(a) ==
  LET ext == Extension(a.name)
  IN  IF ext = None THEN "NoExtension"
      ELSE IF ~a.extText THEN "Undeterminable"
      ELSE IF ext[1] \in {Zip, Iemod} THEN "zip"
      ELSE IF ext[1] = Tgz THEN "tgz"
      ELSE IF ext[1] = Gz
           THEN LET stem == FileStem(a.name)
                IN  IF stem = None THEN "UnsupportedGz"
                    ELSE IF Extension(stem[1]) = Some(Tar) THEN "tgz"
                    ELSE "UnsupportedGz"
      ELSE "external"

\* an exit of extract_zip / extract_tgz / extract_external with an error
ExtractFail(error) ==
  /\ extractResult' = error
  /\ pc' = "extract_return"

\* extract_files is entered and _extract_files dispatches
extract_files ==
  /\ pc = "extract_files"
  /\ stages' = Append(stages, "Extract")
  /\ route' = ExtractDispatch(archive)
  /\ IF route' \in {"zip", "tgz"}
     THEN pc' = "open_archive" /\ UNCHANGED extractResult
     ELSE IF route' = "external"
     THEN pc' = "create_temp_dir" /\ UNCHANGED extractResult
     ELSE ExtractFail(route')
  /\ UNCHANGED <<inputVars, outcomes, result, archive, replaced, dirVars, tempVars,
                 commandVars, moveVars>>

\* File::open(archive) and, for zip, ZipArchive::new(reader)
OpenArchive ==
  /\ pc = "open_archive"
  /\ \/ ExtractFail("OpenError")
     \/ pc' = "create_temp_dir" /\ UNCHANGED extractResult
  /\ UNCHANGED <<inputVars, orchVars, route, tempVars, commandVars, moveVars>>

\* create_temp_dir: in the configured extraction location or the default one
create_temp_dir ==
  /\ pc = "create_temp_dir"
  /\ \/ /\ ExtractFail("TempDirError")
        /\ UNCHANGED tempVars
     \/ /\ tempDir' = "exists"
        /\ tempText' \in (IF route = "external" THEN BOOLEAN ELSE {TRUE})
        /\ tempTree' = {}
        /\ pc' = "unpack"
        /\ UNCHANGED extractResult
  /\ UNCHANGED <<inputVars, orchVars, route, commandVars, moveVars>>

\* zip_archive.extract(&temp_dir) of extract_zip
UnpackZip ==
  /\ pc = "unpack"
  /\ route = "zip"
  /\ \/ /\ tempTree' \in PartialTrees
        /\ ExtractFail("ExtractionError")
     \/ /\ tempTree' \in Trees
        /\ pc' = IF precopy THEN "precopy" ELSE "files_to_move"
        /\ UNCHANGED extractResult
  /\ UNCHANGED <<inputVars, orchVars, route, tempDir, tempText, commandVars,
                 moveVars>>

\* tar_archive.unpack(&temp_dir) of extract_tgz
UnpackTgz ==
  /\ pc = "unpack"
  /\ route = "tgz"
  /\ \/ /\ tempTree' \in PartialTrees
        /\ ExtractFail("ExtractionError")
     \/ /\ tempTree' \in Trees
        /\ pc' = "files_to_move"
        /\ UNCHANGED extractResult
  /\ UNCHANGED <<inputVars, orchVars, route, tempDir, tempText, commandVars,
                 moveVars>>

\* extractor_command, if the extension were looked up as written
extractor_command_exact(extension) ==
  IF extension \in DOMAIN extractors
  THEN Some(extractors[extension])
  ELSE None

\* extractor_command: the configured extractor of an extension
extractor_command(extension) ==
  IF lwc(extension) \in DOMAIN extractors
  THEN Some(extractors[lwc(extension)])
  ELSE None

\* one argument of the extractor command with its placeholder replaced;
\* None when the path is not valid text
SubstituteArg(arg) ==
  IF Contains(arg, InputPh)
  THEN IF archive.pathText THEN Some(Replace(arg, InputPh, ArchivePath)) ELSE None
  ELSE IF Contains(arg, TargetPh)
  THEN IF tempText THEN Some(Replace(arg, TargetPh, TempPath)) ELSE None
  ELSE Some(arg)

\* external_extractor_tool, called by extract_external
external_extractor_tool ==
  /\ pc = "unpack"
  /\ route = "external"
  /\ LET command == extractor_command(Extension(archive.name)[1])
     IN  IF command = None
         THEN /\ ExtractFail("ConfigurationError")
              /\ UNCHANGED <<tempTree, toolStatus, toolArgs>>
         ELSE LET args == [i \in 1..Len(command[1]) |-> SubstituteArg(command[1][i])]
              IN  IF \E i \in 1..Len(args) : args[i] = None
                  THEN /\ ExtractFail("CommandError")
                       /\ UNCHANGED <<tempTree, toolStatus, toolArgs>>
                  ELSE /\ toolArgs' = [i \in 1..Len(args) |-> args[i][1]]
                       /\ \/ /\ toolStatus' = "spawnfail"
                             /\ ExtractFail("ExtractionError")
                             /\ UNCHANGED tempTree
                          \/ /\ toolStatus' = "success"
                             /\ tempTree' \in Trees
                             /\ pc' = "files_to_move"
                             /\ UNCHANGED extractResult
                          \/ /\ toolStatus' = "nonzero"
                             /\ tempTree' \in Trees \cup PartialTrees
                             /\ pc' = "files_to_move"
                             /\ UNCHANGED extractResult
  /\ UNCHANGED <<inputVars, orchVars, route, tempDir, tempText, precopyStatus,
                 moveVars>>

\* run_precopy_command, called by extract_zip
run_precopy_command ==
  /\ pc = "precopy"
  /\ \/ /\ precopyStatus' = "success"
        /\ tempTree' \in Trees
        /\ pc' = "files_to_move"
        /\ UNCHANGED extractResult
     \/ /\ precopyStatus' \in {"nonzero", "spawnfail"}
        /\ ExtractFail("HookError")
        /\ UNCHANGED tempTree
  /\ UNCHANGED <<inputVars, orchVars, route, tempDir, tempText, toolStatus,
                 toolArgs, moveVars>>


\* the walk of files_to_move: the entries of the tree between min_depth and
\* max_depth (both inclusive; the root itself is never yielded) that match
\* one of the patterns
GlobWalk(tree, pats, minDepth, maxDepth) ==
  {p \in tree : /\ Len(p) >= minDepth
                /\ Len(p) <= maxDepth
                /\ \E pat \in pats : PatternMatches(pat, p)}

\* no pattern, or only blank ones
NoPattern(pats) == pats = {} \/ \A pat \in pats : IsBlank(pat)

\* files_to_move, if the pattern set were not checked
files_to_move_nocheck ==
  /\ pc = "files_to_move"
  /\ items' = GlobWalk(tempTree, patterns, strip, strip + 1)
  /\ pending' = items'
  /\ selTree' = tempTree
  /\ pc' = "move_items"
  /\ UNCHANGED extractResult
  /\ UNCHANGED <<inputVars, orchVars, route, tempVars, commandVars, dest,
                 extractDir, clobbered>>

\* files_to_move, called by move_from_temp_dir
files_to_move ==
  /\ pc = "files_to_move"
  /\ IF NoPattern(patterns)
     THEN /\ ExtractFail("SelectionError")
          /\ UNCHANGED <<items, pending, selTree>>
     ELSE /\ items' = GlobWalk(tempTree, patterns, strip, strip + 1)
          /\ pending' = items'
          /\ selTree' = tempTree
          /\ pc' = "move_items"
          /\ UNCHANGED extractResult
  /\ UNCHANGED <<inputVars, orchVars, route, tempVars, commandVars, dest,
                 extractDir, clobbered>>

\* the files of the temp tree a moved item brings along
FilesOf(item) ==
  IF IsDir(item) THEN {q \in Below(tempTree, item) : ~IsDir(q)} ELSE {item}
\* the directories a moved item creates in the destination
DirsOf(item) ==
  IF IsDir(item) THEN {item} \cup {q \in Below(tempTree, item) : IsDir(q)} ELSE {}
\* the files of a moved item whose destination path already exists
Collisions(item) == {q \in FilesOf(item) : Rebase(item, q) \in dest}

\* MoveItem, if the copy options asked for overwrite
MoveItem_overwrite ==
  /\ pc = "move_items"
  /\ \E item \in pending :
       IF item \notin tempTree
       THEN /\ ExtractFail("PlacementError")
            /\ UNCHANGED <<tempTree, pending, dest, clobbered>>
       ELSE /\ dest' = dest \cup {Rebase(item, q) : q \in DirsOf(item) \cup FilesOf(item)}
            /\ clobbered' = clobbered \cup {Rebase(item, q) : q \in Collisions(item)}
            /\ tempTree' = tempTree \ (DirsOf(item) \cup FilesOf(item))
            /\ pending' = pending \ {item}
            /\ UNCHANGED <<pc, extractResult>>
  /\ extractDir' = GameDir
  /\ UNCHANGED <<inputVars, orchVars, route, tempDir, tempText, commandVars,
                 items, selTree>>

\* fs_extra::move_items moves one selected entry into the game dir; the
\* entries are taken in the order of the HashSet, that is in any order
MoveItem ==
  /\ pc = "move_items"
  /\ \E item \in pending :
       IF item \notin tempTree
       THEN \* moved away with a directory selected above it
            /\ ExtractFail("PlacementError")
            /\ UNCHANGED <<tempTree, pending, dest>>
       ELSE IF Collisions(item) # {}
       THEN \* the files before the first collision are moved
            /\ \E moved \in SUBSET (FilesOf(item) \ Collisions(item)) :
                 /\ dest' = dest \cup {Rebase(item, q) : q \in DirsOf(item) \cup moved}
                 /\ tempTree' = tempTree \ moved
            /\ ExtractFail("PlacementError")
            /\ UNCHANGED pending
       ELSE /\ dest' = dest \cup {Rebase(item, q) : q \in DirsOf(item) \cup FilesOf(item)}
            /\ tempTree' = tempTree \ (DirsOf(item) \cup FilesOf(item))
            /\ pending' = pending \ {item}
            /\ UNCHANGED <<pc, extractResult>>
  /\ extractDir' = GameDir
  /\ UNCHANGED <<inputVars, orchVars, route, tempDir, tempText, commandVars,
                 items, selTree, clobbered>>

\* move_items is through: extract_zip / extract_tgz / extract_external end
\* with Ok(())
MoveDone ==
  /\ pc = "move_items"
  /\ pending = {}
  /\ extractResult' = "ok"
  /\ pc' = "extract_return"
  /\ extractDir' = GameDir
  /\ UNCHANGED <<inputVars, orchVars, route, tempVars, commandVars, items,
                 pending, dest, selTree, clobbered>>

\* DropTempDir, if the temp directory were only removed on the success path
DropTempDir_leak ==
  IF tempDir = "exists" /\ extractResult = "ok" THEN "removed" ELSE tempDir

\* the TempDir goes out of scope: its directory is removed
DropTempDir == IF tempDir = "exists" THEN "removed" ELSE tempDir

\* ExtractReturn, if get_module dropped the result of extract_files
ExtractReturn_ignore ==
  /\ pc = "extract_return"
  /\ tempDir' = DropTempDir
  /\ tempTree' = {}
  /\ outcomes' = Append(outcomes, IF extractResult = "ok" THEN "ok" ELSE "err")
  /\ pc' = "patch"
  /\ UNCHANGED result
  /\ UNCHANGED <<inputVars, stages, archive, replaced, dirVars, route, extractResult,
                 tempText, commandVars, moveVars>>

\* extract_files returns to get_module, which propagates an error with `?`
ExtractReturn ==
  /\ pc = "extract_return"
  /\ tempDir' = DropTempDir
  /\ tempTree' = {}
  /\ IF extractResult = "ok"
     THEN /\ outcomes' = Append(outcomes, "ok")
          /\ pc' = "patch"
          /\ UNCHANGED result
     ELSE Bail(<<"err">>)
  /\ UNCHANGED <<inputVars, stages, archive, replaced, dirVars, route, extractResult,
                 tempText, commandVars, moveVars>>

(***************************************************************************)
(* get_module: the stages after the extraction.                            *)
(***************************************************************************)
\* patch_module(..).await?
patch_module ==
  /\ pc = "patch"
  /\ stages' = Append(stages, "Patch")
  /\ patchDir' = cwd
  /\ \/ Bail(<<"err">>)
     \/ /\ outcomes' = Append(outcomes, "ok")
        /\ pc' = "replace_module"
        /\ UNCHANGED result
  /\ UNCHANGED <<inputVars, archive, replaced, cwd, specLog, route,
                 extractResult, tempVars, commandVars, moveVars>>

\* replace_module is called
replace_module ==
  /\ pc = "replace_module"
  /\ stages' = Append(stages, "Replace")
  /\ pc' = "replace"
  /\ UNCHANGED <<inputVars, outcomes, result, archive, replaced, dirVars, route,
                 extractResult, tempVars, commandVars, moveVars>>

\* game_dir.join(&module_name) of replace_module: the module's
\* subdirectory of the directory it is given
ModPath(dir) == <<dir, "<module_name>">>

\* one run of a replace spec, as the log keeps it
SpecRun(outcome) ==
  [index |-> replaced + 1, dir |-> ModPath(cwd), outcome |-> outcome]

\* ReplaceSpecExec, if the result of spec.exec were dropped
ReplaceSpecExec_continue ==
  /\ pc = "replace"
  /\ IF replaceSpecs = None THEN FALSE ELSE replaced < replaceSpecs[1]
  /\ replaced' = replaced + 1
  /\ \E outcome \in {"ok", "err"} : specLog' = Append(specLog, SpecRun(outcome))
  /\ UNCHANGED <<pc, outcomes, result>>
  /\ UNCHANGED <<inputVars, stages, archive, cwd, patchDir, route,
                 extractResult, tempVars, commandVars, moveVars>>

\* spec.exec(&mod_path)? for the next spec of the list
ReplaceSpecExec ==
  /\ pc = "replace"
  /\ IF replaceSpecs = None THEN FALSE ELSE replaced < replaceSpecs[1]
  /\ replaced' = replaced + 1
  /\ \/ /\ specLog' = Append(specLog, SpecRun("err"))
        /\ Bail(<<"err">>)
     \/ /\ specLog' = Append(specLog, SpecRun("ok"))
        /\ UNCHANGED <<pc, outcomes, result>>
  /\ UNCHANGED <<inputVars, stages, archive, cwd, patchDir, route,
                 extractResult, tempVars, commandVars, moveVars>>

\* ReplaceDone, if get_module returned while the specs are still run
ReplaceDone_early ==
  /\ pc = "replace"
  /\ result = "none"
  /\ outcomes' = Append(outcomes, "ok")
  /\ result' = "ok"
  /\ UNCHANGED <<inputVars, pc, stages, archive, replaced, dirVars, route,
                 extractResult, tempVars, commandVars, moveVars>>

\* replace_module returns Ok(()) and so does get_module
ReplaceDone ==
  /\ pc = "replace"
  /\ IF replaceSpecs = None THEN TRUE ELSE replaced = replaceSpecs[1]
  /\ outcomes' = Append(outcomes, "ok")
  /\ result' = "ok"
  /\ pc' = "done"
  /\ UNCHANGED <<inputVars, stages, archive, replaced, dirVars, route, extractResult,
                 tempVars, commandVars, moveVars>>

Next ==
  \/ NoLocation
  \/ retrieve_location
  \/ CurrentDir
  \/ extract_files
  \/ OpenArchive
  \/ create_temp_dir
  \/ UnpackZip
  \/ UnpackTgz
  \/ external_extractor_tool
  \/ run_precopy_command
  \/ files_to_move
  \/ MoveItem
  \/ MoveDone
  \/ ExtractReturn
  \/ patch_module
  \/ replace_module
  \/ ReplaceSpecExec
  \/ ReplaceDone

Spec == Init /\ [][Next]_vars


(***************************************************************************)
(* Source: save_subdir, save_name, default_strip_leading.                  *)
(***************************************************************************)
\* save_subdir, if the descriptor had its own subdirectory
save_subdir_descriptor(src) ==
  CASE src.kind = "Http" ->
         LET url == UrlParse(src.http)
         IN IF ~url.ok THEN Err
            ELSE IF url.host = None THEN Err
                 ELSE Ok(Join(Rel(<<"http">>), Rel(<<url.host[1]>>)))
    [] src.kind \in {"Absolute", "Local"} -> Ok(EmptyPath)
    [] src.kind = "Github" ->
         Ok(Join(Join(Join(Rel(<<"github">>), Rel(<<src.github_user>>)),
                      Rel(<<src.repository>>)), Rel(<<src.descriptor.kind>>)))

save_subdir(src) ==
  CASE src.kind = "Http" ->
         LET url == UrlParse(src.http)
         IN IF ~url.ok THEN Err
            ELSE IF url.host = None THEN Err
                 ELSE Ok(Join(Rel(<<"http">>), Rel(<<url.host[1]>>)))
    [] src.kind \in {"Absolute", "Local"} -> Ok(EmptyPath)
    [] src.kind = "Github" ->
         Ok(Join(Join(Rel(<<"github">>), Rel(<<src.github_user>>)),
                 Rel(<<src.repository>>)))

\* format!("{}-{}.zip", module_name, ref)
RefZip(module_name, ref) == <<module_name, "-">> \o ref \o <<".zip">>

\* save_name, if a release asset were named after the module as well
save_name_ref(src, module_name) ==
  CASE src.kind = "Http" ->
         IF src.rename # None THEN Ok(src.rename[1])
         ELSE LET url == UrlParse(src.http)
              IN IF ~url.ok THEN Err
                 ELSE IF url.segments = None THEN Err
                      ELSE LET segments == url.segments[1]
                           IN IF segments = <<>> THEN Err
                              ELSE Ok(PercentDecode(segments[Len(segments)]))
    [] src.kind \in {"Absolute", "Local"} -> Ok(<<>>)
    [] src.kind = "Github" -> Ok(RefZip(module_name, src.descriptor.ref))

save_name(src, module_name) ==
  CASE src.kind = "Http" ->
         IF src.rename # None THEN Ok(src.rename[1])
         ELSE LET url == UrlParse(src.http)
              IN IF ~url.ok THEN Err
                 ELSE IF url.segments = None THEN Err
                      ELSE LET segments == url.segments[1]
                           IN IF segments = <<>> THEN Err
                              ELSE Ok(PercentDecode(segments[Len(segments)]))
    [] src.kind \in {"Absolute", "Local"} -> Ok(<<>>)
    [] src.kind = "Github" ->
         IF src.descriptor.kind = "Release" THEN Ok(src.descriptor.ref)
         ELSE Ok(RefZip(module_name, src.descriptor.ref))

\* default_strip_leading, if every Github archive were taken as wrapped
default_strip_leading_github(src) ==
  IF src.kind = "Github" THEN 1 ELSE 0

default_strip_leading(src) ==
  IF src.kind = "Github" /\ src.descriptor.kind \in {"Commit", "Tag", "Branch"}
  THEN 1
  ELSE 0

(***************************************************************************)
(* ModuleDownload::retrieve_location, step by step.                        *)
(***************************************************************************)
\* the state of get_module while retrieve_location is looked into
CallIdle ==
  /\ hasLocation = TRUE
  /\ precopy = FALSE
  /\ patterns = {<<"*">>}
  /\ strip = 0
  /\ replaceSpecs = None
  /\ extractors = NoExtractors
  /\ dest0 = {}
  /\ pc = "start"
  /\ stages = <<>>
  /\ outcomes = <<>>
  /\ result = "none"
  /\ archive = NoArchive
  /\ route = "none"
  /\ extractResult = "none"
  /\ tempDir = "none"
  /\ tempText = TRUE
  /\ tempTree = {}
  /\ precopyStatus = "notrun"
  /\ toolStatus = "notrun"
  /\ toolArgs = <<>>
  /\ items = {}
  /\ pending = {}
  /\ dest = dest0
  /\ replaced = 0
  /\ selTree = {}
  /\ extractDir = "none"
  /\ clobbered = {}
  /\ cwd = "none"
  /\ patchDir = "none"
  /\ specLog = <<>>

callVars ==
  <<hasLocation, precopy, patterns, strip, replaceSpecs, extractors, dest0,
    pc, orchVars, route, extractResult, tempVars, commandVars, moveVars,
    originVars, copyVars>>

InitRetrieve ==
  /\ CallIdle
  /\ InstallIdle
  /\ source \in Sources
  /\ moduleName \in ModuleNames
  /\ localMods \in (IF source.kind = "Local" THEN LocalModsValues ELSE {None})
  /\ manifestPath \in
       (IF source.kind = "Local" THEN ManifestPaths
        ELSE {Abs(<<"home", "me", "my_install.yaml">>)})
  /\ rpc = "save_subdir"
  /\ subdirRes = NotYet
  /\ nameRes = NotYet
  /\ downloads = <<>>
  /\ retrieved = NotYet
  /\ stripDefault = None

\* let dest = self.cache.join(loc.source.save_subdir()?)
SaveSubdir ==
  /\ rpc = "save_subdir"
  /\ subdirRes' = save_subdir(source)
  /\ IF IsOk(subdirRes')
     THEN rpc' = "save_name" /\ UNCHANGED retrieved
     ELSE rpc' = "returned" /\ retrieved' = Err
  /\ UNCHANGED <<callVars, locationVars, nameRes, downloads, stripDefault>>

\* let save_name = loc.source.save_name(&module.name)?
SaveName ==
  /\ rpc = "save_name"
  /\ nameRes' = save_name(source, moduleName)
  /\ IF IsOk(nameRes')
     THEN rpc' = "match" /\ UNCHANGED retrieved
     ELSE rpc' = "returned" /\ retrieved' = Err
  /\ UNCHANGED <<callVars, locationVars, subdirRes, downloads, stripDefault>>

\* Cache::join
cache_join(subdir) == Join(CachePath, subdir)

\* what Downloader::download may yield
DownloadYields ==
  {Err, Ok(Rel(<<"cache_dir", "directory", "filename.zip">>)),
   Ok(Abs(<<"cache_path", "partial", "filename.zip">>))}

\* one call of the downloader, with what it yielded
DownloadCall(url, dir, name, yield) ==
  [url |-> url, dest |-> dir, name |-> name, yield |-> yield]

\* the Http arm, if the file were downloaded into the cache root
Download_root ==
  /\ rpc = "match"
  /\ source.kind = "Http"
  /\ \E yield \in DownloadYields :
       /\ downloads' = Append(downloads,
            DownloadCall(source.http, CachePath, nameRes[2], yield))
       /\ retrieved' = yield
  /\ rpc' = "returned"
  /\ UNCHANGED <<callVars, locationVars, subdirRes, nameRes, stripDefault>>

\* Http { http, .. } => self.downloader.download(http, &dest, save_name).await
Download ==
  /\ rpc = "match"
  /\ source.kind = "Http"
  /\ \E yield \in DownloadYields :
       /\ downloads' = Append(downloads,
            DownloadCall(source.http, cache_join(subdirRes[2]), nameRes[2], yield))
       /\ retrieved' = yield
  /\ rpc' = "returned"
  /\ UNCHANGED <<callVars, locationVars, subdirRes, nameRes, stripDefault>>

\* Github(github) => github.get_github(&self.downloader, &dest, save_name).await
get_github ==
  /\ rpc = "match"
  /\ source.kind = "Github"
  /\ \E yield \in DownloadYields :
       /\ downloads' = Append(downloads,
            DownloadCall(<<"github", source.github_user, source.repository>>,
                         cache_join(subdirRes[2]), nameRes[2], yield))
       /\ retrieved' = yield
  /\ rpc' = "returned"
  /\ UNCHANGED <<callVars, locationVars, subdirRes, nameRes, stripDefault>>

\* the Absolute arm, if the path were cleaned
YieldAbsolute_clean ==
  /\ rpc = "match"
  /\ source.kind = "Absolute"
  /\ retrieved' = Ok(Clean(source.path))
  /\ rpc' = "returned"
  /\ UNCHANGED <<callVars, locationVars, subdirRes, nameRes, downloads, stripDefault>>

\* Absolute { path } => Ok(PathBuf::from(path))
YieldAbsolute ==
  /\ rpc = "match"
  /\ source.kind = "Absolute"
  /\ retrieved' = Ok(source.path)
  /\ rpc' = "returned"
  /\ UNCHANGED <<callVars, locationVars, subdirRes, nameRes, downloads, stripDefault>>

get_manifest_root ==
  LET parent == Parent(manifestPath)
  IN IF parent = None THEN GameDirPath ELSE parent[1]

\* get_local_mod_path, if local_mods were not checked
get_local_mod_path_unchecked(local) ==
  LET manifest_path == Clean(get_manifest_root)
      local_mods == IF localMods = None THEN EmptyPath ELSE Clean(localMods[1])
      mod_name == Clean(local)
  IN IF IsAbsolute(mod_name) THEN Err
     ELSE Ok(Join(Join(manifest_path, local_mods), mod_name))

get_local_mod_path(local) ==
  LET manifest_path == Clean(get_manifest_root)
      local_mods == IF localMods = None THEN EmptyPath ELSE Clean(localMods[1])
      mod_name == Clean(local)
  IN IF IsAbsolute(local_mods) \/ StartsWithParent(local_mods) THEN Err
     ELSE IF IsAbsolute(mod_name) \/ StartsWithParent(local_mods) THEN Err
          ELSE Ok(Join(Join(manifest_path, local_mods), mod_name))

\* Local { local } => self.get_local_mod_path(local)
YieldLocal ==
  /\ rpc = "match"
  /\ source.kind = "Local"
  /\ retrieved' = get_local_mod_path(source.local)
  /\ rpc' = "returned"
  /\ UNCHANGED <<callVars, locationVars, subdirRes, nameRes, downloads, stripDefault>>

\* source.default_strip_leading(), asked once
DefaultStrip ==
  /\ rpc # "idle"
  /\ stripDefault = None
  /\ stripDefault' = Some(default_strip_leading(source))
  /\ UNCHANGED <<callVars, locationVars, rpc, subdirRes, nameRes, downloads, retrieved>>

NextRetrieve ==
  \/ SaveSubdir
  \/ SaveName
  \/ Download
  \/ get_github
  \/ YieldAbsolute
  \/ YieldLocal
  \/ DefaultStrip

SpecRetrieve == InitRetrieve /\ [][NextRetrieve]_vars


(***************************************************************************)
(* FileInstaller::copy_from_origins, step by step.                         *)
(***************************************************************************)
\* an error, named after the bail! (or the failing call) it comes from
Fail(kind) == <<"err", kind>>

\* the directories of the machine
Root == Abs(<<>>)
Cwd == Abs(<<"home", "me">>)
LocalBase == Abs(<<"home", "me", "files", "a">>)
OutsideBase == Abs(<<"home", "me", "outside">>)
DataBase == Abs(<<"data", "b">>)
ExistingDirs ==
  {Root, Abs(<<"home">>), Cwd, Abs(<<"home", "me", "files">>), LocalBase,
   OutsideBase, Abs(<<"data">>), DataBase}
\* a symbolic link to the root
RootLink == Abs(<<"link">>)

\* what is below the directories the origins can name
LocalTree == {<<"readme">>, <<"Data">>, <<"Data", "a.txt">>, <<"Data", "readme">>}
OutsideTree == {<<"a.txt">>}
DataTree == {<<"readme">>}

\* the tree below a path as the system resolves it, None when there is none
BaseTreeOf(path) ==
  LET resolved == Clean(IF path.abs THEN path ELSE Join(Cwd, path))
  IN CASE resolved = LocalBase -> Some(LocalTree)
       [] resolved = OutsideBase -> Some(OutsideTree)
       [] resolved = DataBase -> Some(DataTree)
       [] OTHER -> None

\* Path::canonicalize
Canonicalize(path) ==
  LET resolved == Clean(IF path.abs THEN path ELSE Join(Cwd, path))
      real == IF resolved = RootLink THEN Root ELSE resolved
  IN IF real \in ExistingDirs THEN Ok(real) ELSE Fail("canonicalize")

\* check_absolute, if the root were allowed as a base
check_absolute_root(path) ==
  LET path_buf == Canonicalize(path)
  IN IF ~IsOk(path_buf) THEN path_buf
     ELSE IF ~IsAbsolute(path_buf[2]) THEN Fail("is not absolute")
     ELSE IF path_buf[2] \notin ExistingDirs THEN Fail("doesn't exist")
     ELSE Ok(path_buf[2])

check_absolute(path) ==
  LET path_buf == Canonicalize(path)
  IN IF ~IsOk(path_buf) THEN path_buf
     ELSE IF ~IsAbsolute(path_buf[2]) THEN Fail("is not absolute")
     ELSE IF path_buf[2] \notin ExistingDirs THEN Fail("doesn't exist")
     ELSE IF Parent(path_buf[2]) = None THEN Fail("is not allowed as base")
     ELSE Ok(path_buf[2])

FileInstaller_get_manifest_root ==
  LET parent == Parent(manifestPath)
  IN IF parent = None THEN GameDirPath ELSE parent[1]

\* get_local_base_path, if local_files were not checked
get_local_base_path_unchecked(file_path) ==
  LET manifest_path == Clean(FileInstaller_get_manifest_root)
      local_files == IF localFiles = None THEN EmptyPath ELSE Clean(localFiles[1])
      cleaned == Clean(file_path)
  IN IF IsAbsolute(cleaned) THEN Fail("Invalid local value")
     ELSE Ok(Join(Join(manifest_path, local_files), cleaned))

get_local_base_path(file_path) ==
  LET manifest_path == Clean(FileInstaller_get_manifest_root)
      local_files == IF localFiles = None THEN EmptyPath ELSE Clean(localFiles[1])
      cleaned == Clean(file_path)
  IN IF IsAbsolute(local_files) \/ StartsWithParent(local_files)
     THEN Fail("Invalid local_files value")
     ELSE IF IsAbsolute(cleaned) \/ StartsWithParent(local_files)
          THEN Fail("Invalid local value")
          ELSE Ok(Join(Join(manifest_path, local_files), cleaned))

get_origin_base(origin) ==
  IF origin.kind = "Absolute" THEN check_absolute(origin.path)
  ELSE get_local_base_path(origin.path)

\* the file origins a manifest can name
Origins ==
  { [kind |-> "Local", path |-> Rel(<<"a">>), glob |-> None],
    [kind |-> "Local", path |-> Rel(<<"a">>), glob |-> Some(<<"readme">>)],
    [kind |-> "Local", path |-> Rel(<<"..", "outside">>), glob |-> Some(<<"*">>)],
    [kind |-> "Absolute", path |-> Abs(<<"data", ".", "b">>), glob |-> None],
    [kind |-> "Absolute", path |-> Abs(<<"data", "b">>), glob |-> Some(<<"data">>)],
    [kind |-> "Absolute", path |-> RootLink, glob |-> None],
    [kind |-> "Absolute", path |-> Abs(<<"missing">>), glob |-> None] }

OriginLists == UNION {[1..n -> Origins] : n \in 1..MaxOrigins}

\* global.local_files
LocalFilesValues ==
  {Some(Rel(<<"files">>)), Some(Rel(<<"..", "escape">>)),
   Some(Rel(<<"files", "..", "..", "escape">>)), Some(Abs(<<"files">>)), None}

\* the files of a target, each with its content
Old == <<"old">>
TargetTrees ==
  {{}, {<<<<"readme">>, Old>>}, {<<<<"b", "readme">>, Old>>}}

FilesIn(t) == {e[1] : e \in t}
ContentIn(t, path) == (CHOOSE e \in t : e[1] = path)[2]
Put(t, path, content) == {e \in t : e[1] # path} \cup {<<path, content>>}

InitInstall ==
  /\ CallIdle
  /\ source = NoSource
  /\ moduleName = "m1"
  /\ localMods = None
  /\ manifestPath \in {Abs(<<"home", "me", "my_install.yaml">>), Abs(<<>>)}
  /\ rpc = "idle"
  /\ subdirRes = NotYet
  /\ nameRes = NotYet
  /\ downloads = <<>>
  /\ retrieved = NotYet
  /\ stripDefault = None
  /\ origins \in OriginLists
  /\ localFiles \in LocalFilesValues
  /\ allowOverwrite \in BOOLEAN
  /\ targetAbsent0 \in BOOLEAN
  /\ target0 \in (IF targetAbsent0 THEN {{}} ELSE TargetTrees)
  /\ ipc = "get_origin_base"
  /\ bases = <<>>
  /\ target = target0
  /\ current = 0
  /\ jobs = {}
  /\ copyOverwrite = FALSE
  /\ copyLog = <<>>
  /\ fsAccess = <<>>
  /\ installed = NotYet

installCallVars ==
  <<hasLocation, precopy, patterns, strip, replaceSpecs, extractors, dest0,
    pc, orchVars, route, extractResult, tempVars, commandVars, moveVars,
    locationVars, resolveVars>>

\* origins.iter().map(|origin| (self.get_origin_base(origin), origin.glob()))
\*   .collect(): the next origin of the list
ResolveOrigin ==
  /\ ipc = "get_origin_base"
  /\ LET i == Len(bases) + 1
     IN /\ bases' = Append(bases, get_origin_base(origins[i]))
        /\ fsAccess' = IF origins[i].kind = "Absolute"
                       THEN Append(fsAccess, <<"canonicalize", i>>)
                       ELSE fsAccess
        /\ ipc' = IF i = Len(origins) THEN "get_file_globs" ELSE "get_origin_base"
  /\ UNCHANGED <<installCallVars, originVars, target, current, jobs,
                 copyOverwrite, copyLog, installed>>

Errors(results) == {i \in 1..Len(results) : ~IsOk(results[i])}

\* get_file_globs, if the target were ensured before the results are
\* looked at
get_file_globs_target ==
  /\ ipc = "get_file_globs"
  /\ fsAccess' = Append(fsAccess, <<"create_dir_all", 0>>)
  /\ IF Errors(bases) # {}
     THEN /\ installed' = Fail("Could not assemble FileModuleOrigins")
          /\ ipc' = "done"
          /\ UNCHANGED current
     ELSE /\ ipc' = "copy_from_glob"
          /\ current' = 1
          /\ UNCHANGED installed
  /\ UNCHANGED <<installCallVars, originVars, bases, target, jobs,
                 copyOverwrite, copyLog>>

\* get_file_globs: the partition of the results, and self.get_file_globs(origins)?
get_file_globs ==
  /\ ipc = "get_file_globs"
  /\ IF Errors(bases) # {}
     THEN /\ installed' = Fail("Could not assemble FileModuleOrigins")
          /\ ipc' = "done"
     ELSE /\ ipc' = "ensure_path"
          /\ UNCHANGED installed
  /\ UNCHANGED <<installCallVars, originVars, bases, target, current, jobs,
                 copyOverwrite, copyLog, fsAccess>>

\* ensure_path(target)?
ensure_path ==
  /\ ipc = "ensure_path"
  /\ \/ /\ installed' = Fail("ensure_dirs")
        /\ ipc' = "done"
        /\ UNCHANGED <<fsAccess, current>>
     \/ /\ fsAccess' = Append(fsAccess, <<"create_dir_all", 0>>)
        /\ current' = 1
        /\ ipc' = "copy_from_glob"
        /\ UNCHANGED installed
  /\ UNCHANGED <<installCallVars, originVars, bases, target, jobs,
                 copyOverwrite, copyLog>>

\* one file copy: the file copied and where it goes below the target
Job(base, file, to) ==
  [src |-> Clean(base).comps \o file, dst |-> to]

\* fs_extra::copy_items of a directory into an existing directory: every
\* file below it, under the name of the directory
DirJobs(base, tree) ==
  {Job(base, f, <<Clean(base).comps[Len(Clean(base).comps)]>> \o f) :
     f \in {q \in tree : ~IsDir(q)}}

\* the walk of the glob: every entry below the base that matches
GlobItems(tree, glob) == {q \in tree : PatternMatches(glob, q)}

\* copy_file of every matched entry: a file under its own name, a
\* directory with what is below it
GlobJobs(base, tree, glob) ==
  {Job(base, f, <<f[Len(f)]>>) : f \in {q \in GlobItems(tree, glob) : ~IsDir(q)}}
  \cup UNION {{Job(base, f, Rebase(d, f)) : f \in {q \in Below(tree, d) : ~IsDir(q)}} :
                d \in {q \in GlobItems(tree, glob) : IsDir(q)}}

\* the attempt of one file copy, as the log keeps it
CopyAttempt(job, existed, outcome) ==
  [origin |-> current, src |-> job.src, dst |-> job.dst, existed |-> existed,
   outcome |-> outcome]

\* copy_from_glob, if it always overwrote
copy_from_glob_overwrite ==
  /\ ipc = "copy_from_glob"
  /\ current <= Len(origins)
  /\ LET base == bases[current][2]
         tree == BaseTreeOf(base)
         glob == origins[current].glob
     IN IF glob = None /\ tree = None
        THEN /\ installed' = Fail("copy_items")
             /\ ipc' = "done"
             /\ UNCHANGED <<jobs, copyOverwrite>>
        ELSE /\ jobs' = IF tree = None THEN {}
                        ELSE IF glob = None THEN DirJobs(base, tree[1])
                        ELSE GlobJobs(base, tree[1], glob[1])
             /\ copyOverwrite' = TRUE
             /\ ipc' = "copy_items"
             /\ UNCHANGED installed
  /\ UNCHANGED <<installCallVars, originVars, bases, target, current, copyLog,
                 fsAccess>>

\* self.copy_from_glob(glob, target, allow_overwrite)? : what there is to
\* copy.  A base that does not exist fails copy_items; the walk of a glob
\* yields nothing for it.
copy_from_glob ==
  /\ ipc = "copy_from_glob"
  /\ current <= Len(origins)
  /\ LET base == bases[current][2]
         tree == BaseTreeOf(base)
         glob == origins[current].glob
     IN IF glob = None /\ tree = None
        THEN /\ installed' = Fail("copy_items")
             /\ ipc' = "done"
             /\ UNCHANGED <<jobs, copyOverwrite>>
        ELSE /\ jobs' = IF tree = None THEN {}
                        ELSE IF glob = None THEN DirJobs(base, tree[1])
                        ELSE GlobJobs(base, tree[1], glob[1])
             /\ copyOverwrite' = allowOverwrite
             /\ ipc' = "copy_items"
             /\ UNCHANGED installed
  /\ UNCHANGED <<installCallVars, originVars, bases, target, current, copyLog,
                 fsAccess>>

\* CopyItem, if a file that exists were skipped
CopyItem_skip ==
  /\ ipc = "copy_items"
  /\ \E job \in jobs :
       LET existed == job.dst \in FilesIn(target)
       IN IF existed /\ ~copyOverwrite
          THEN /\ copyLog' = Append(copyLog, CopyAttempt(job, existed, "err"))
               /\ jobs' = jobs \ {job}
               /\ UNCHANGED <<target, installed, ipc>>
          ELSE /\ copyLog' = Append(copyLog, CopyAttempt(job, existed, "ok"))
               /\ target' = Put(target, job.dst, job.src)
               /\ jobs' = jobs \ {job}
               /\ UNCHANGED <<installed, ipc>>
  /\ UNCHANGED <<installCallVars, originVars, bases, current, copyOverwrite,
                 fsAccess>>

\* fs_extra::copy_items, one file at a time: a file that exists fails the
\* copy unless overwrite is set
CopyItem ==
  /\ ipc = "copy_items"
  /\ \E job \in jobs :
       LET existed == job.dst \in FilesIn(target)
       IN IF existed /\ ~copyOverwrite
          THEN /\ copyLog' = Append(copyLog, CopyAttempt(job, existed, "err"))
               /\ installed' = Fail("copy_items")
               /\ ipc' = "done"
               /\ UNCHANGED <<target, jobs>>
          ELSE /\ copyLog' = Append(copyLog, CopyAttempt(job, existed, "ok"))
               /\ target' = Put(target, job.dst, job.src)
               /\ jobs' = jobs \ {job}
               /\ UNCHANGED <<installed, ipc>>
  /\ UNCHANGED <<installCallVars, originVars, bases, current, copyOverwrite,
                 fsAccess>>

\* the copy of the current origin is over: for glob in globs
CopyNext ==
  /\ ipc = "copy_items"
  /\ jobs = {}
  /\ current' = current + 1
  /\ ipc' = "copy_from_glob"
  /\ UNCHANGED <<installCallVars, originVars, bases, target, jobs,
                 copyOverwrite, copyLog, fsAccess, installed>>

\* Ok(()) of copy_from_globs
CopyDone ==
  /\ ipc = "copy_from_glob"
  /\ current > Len(origins)
  /\ installed' = Ok(<<>>)
  /\ ipc' = "done"
  /\ UNCHANGED <<installCallVars, originVars, bases, target, current, jobs,
                 copyOverwrite, copyLog, fsAccess>>

NextInstall ==
  \/ ResolveOrigin
  \/ get_file_globs
  \/ ensure_path
  \/ copy_from_glob
  \/ CopyItem
  \/ CopyNext
  \/ CopyDone

SpecInstall == InitInstall /\ [][NextInstall]_vars


(***************************************************************************)
(* Properties.                                                             *)
(***************************************************************************)
\* the positions of a call after extract_files has returned
AfterExtract == {"patch", "replace_module", "replace", "done"}
\* the positions of extract_files at or after the selection of the files
AtSelection == {"files_to_move", "move_items"}

StageOrder == <<"Retrieve", "Extract", "Patch", "Replace">>

\* C1: the stages are started in the order Retrieve, Extract, Patch,
\* Replace, each at most once and each only after the one before it
\* succeeded; a failed stage is the last one started and makes get_module
\* return failure, and get_module succeeds only when all four succeeded.
C1_StagesInOrder ==
  /\ Len(stages) <= Len(StageOrder)
  /\ stages = SubSeq(StageOrder, 1, Len(stages))
  /\ Len(outcomes) <= Len(stages)
  /\ \A i \in 1..(Len(stages) - 1) : i <= Len(outcomes) /\ outcomes[i] = "ok"
  /\ \A i \in 1..Len(outcomes) :
       outcomes[i] = "err" => i = Len(stages) /\ pc = "done" /\ result = "err"
  /\ result = "ok" => outcomes = <<"ok", "ok", "ok", "ok">>

\* a call whose extraction failed: Retrieve and Extract were started, and
\* nothing after them
C1_Witness ==
  /\ pc = "done"
  /\ result = "err"
  /\ stages = <<"Retrieve", "Extract">>
  /\ outcomes = <<"ok", "err">>

\* C2: for a module without location get_module returns failure and starts
\* no stage: no retrieval, no extraction (no temp dir, no command run), no
\* patch, no replace, and the destination tree is as it was.
C2_NoLocationFailsFast ==
  ~hasLocation =>
    /\ pc \in {"start", "done"}
    /\ pc = "done" => result = "err"
    /\ stages = <<>>
    /\ archive = NoArchive
    /\ tempDir = "none"
    /\ precopyStatus = "notrun"
    /\ toolStatus = "notrun"
    /\ replaced = 0
    /\ dest = dest0

\* get_module has returned for a module without location
C2_Witness == ~hasLocation /\ pc = "done" /\ result = "err"

\* C3: once extract_files has returned, whatever its result, the temp
\* directory it created does not exist any more.
C3_TempDirRemoved == pc \in AfterExtract => tempDir # "exists"

\* extract_files has returned with a move failure and its temp directory
\* is gone
C3_Witness ==
  /\ pc = "done"
  /\ extractResult = "PlacementError"
  /\ tempDir = "removed"

\* C4: for every archive format, when the location has a pre-copy command
\* the selection and the move of the files only start after the command
\* ran with success, and a command that failed leaves the destination as
\* it was.
C4_PrecopyForEveryFormat ==
  /\ precopy /\ pc \in AtSelection => precopyStatus = "success"
  /\ precopy /\ dest # dest0 => precopyStatus = "success"
  /\ precopyStatus \in {"nonzero", "spawnfail"} =>
       dest = dest0 /\ pc \notin AtSelection /\ extractResult # "ok"

\* C5: a non-zero exit status of the external extractor, like a failure to
\* spawn it, makes extract_files fail and no file is moved.
C5_ToolFailureFails ==
  toolStatus \in {"nonzero", "spawnfail"} =>
    /\ pc \notin AtSelection
    /\ extractResult # "ok"
    /\ dest = dest0

\* the file name is a non-empty stem, a dot and the dot-free text e
HasExt(name, e) ==
  /\ Len(name) > Len(e) + 1
  /\ name[Len(name) - Len(e)] = "."
  /\ SubSeq(name, Len(name) - Len(e) + 1, Len(name)) = e
\* the file name without its last Len(e) + 1 characters
Without(name, e) == SubSeq(name, 1, Len(name) - Len(e) - 1)
\* the file name has no dot after its first character
Extensionless(name) == \A i \in 2..Len(name) : name[i] # "."

\* C6: the dispatch compares the extension exactly: zip and iemod go to the
\* zip decoder; tgz, and gz around a stem with extension tar, to the
\* gzip+tar decoder; another gz fails as unsupported; a name without
\* extension fails; every other extension goes to the external tool.
C6_DispatchOnExtension ==
  (route # "none" /\ archive.extText) =>
    LET n == archive.name
        tarGz == HasExt(n, Gz) /\ HasExt(Without(n, Gz), Tar)
    IN  /\ route = "zip" <=> (HasExt(n, Zip) \/ HasExt(n, Iemod))
        /\ route = "tgz" <=> (HasExt(n, Tgz) \/ tarGz)
        /\ route = "UnsupportedGz" <=> (HasExt(n, Gz) /\ ~tarGz)
        /\ route = "NoExtension" <=> Extensionless(n)
        /\ route = "external" <=>
             /\ ~Extensionless(n)
             /\ \A e \in {Zip, Iemod, Tgz, Gz} : ~HasExt(n, e)
        /\ route \in {"UnsupportedGz", "NoExtension"} =>
             /\ tempDir = "none"
             /\ dest = dest0
             /\ pc \in {"extract_return", "done"}
             /\ extractResult = route

\* an upper-case ZIP is not the zip of the dispatch: it went to the
\* external tool
C6_Witness ==
  /\ archive.name = <<"m", ".", "Z", "I", "P">>
  /\ route = "external"
  /\ pc = "done"

\* the external extractor has been looked up (and run, if it could be)
ToolStepDone ==
  route = "external" /\ pc \in AtSelection \cup {"extract_return"} \cup AfterExtract
                     /\ extractResult # "TempDirError"

C8_NoPlaceholderLeft ==
  /\ toolStatus # "notrun" =>
       \A i \in 1..Len(toolArgs) :
         ~Contains(toolArgs[i], InputPh) /\ ~Contains(toolArgs[i], TargetPh)
  /\ (ToolStepDone /\ (~archive.pathText \/ ~tempText)) => toolStatus = "notrun"

\* the extraction failed before the selection of the files
EarlyErrors ==
  {"NoExtension", "Undeterminable", "UnsupportedGz", "OpenError",
   "TempDirError", "ExtractionError", "ConfigurationError", "CommandError",
   "HookError"}

\* C9: with an empty or all-blank pattern set the extraction never
\* succeeds, an extraction that gets as far as the selection fails with the
\* selection error, nothing is selected or moved and the destination tree
\* stays as it was.
C9_NoPatternFails ==
  NoPattern(patterns) =>
    /\ dest = dest0
    /\ items = {}
    /\ pc # "move_items"
    /\ extractResult \in {"none", "SelectionError"} \cup EarlyErrors
    /\ result # "ok"

\* an all-blank, non-empty pattern set made the extraction fail
C9_Witness ==
  /\ patterns = {<<" ">>, <<>>}
  /\ extractResult = "SelectionError"
  /\ tempDir = "removed"
  /\ pc = "done"

\* C10: every selected entry is at depth exactly strip + 1 and matches a
\* pattern; no entry at depth strip or at depth strip + 2 is selected.
C10_OnlyDepthStripPlusOne ==
  \A p \in items :
    /\ Len(p) = strip + 1
    /\ \E pat \in patterns : PatternMatches(pat, p)


\* the files a selected entry brought along, in the tree as it was walked
SelectedFiles(item) ==
  IF IsDir(item) THEN {q \in Below(selTree, item) : ~IsDir(q)} ELSE {item}

\* C11 as stated: an extraction only succeeds when no selected entry had a
\* destination path that existed before, and no existing entry is replaced.
C11_ExistingPathFails ==
  /\ clobbered = {}
  /\ dest0 \subseteq dest
  /\ (pc = "extract_return" /\ extractResult = "ok") =>
       \A item \in items : Rebase(item, item) \notin dest0

\* C11 amended: an extraction only succeeds when every selected entry was
\* moved and no file moved (a selected file or a file below a selected
\* directory) had a destination path that existed before; a move never
\* replaces or removes an entry the destination had.  A selected directory
\* whose destination directory exists is merged into it.
C11_FileCollisionFails ==
  /\ clobbered = {}
  /\ dest0 \subseteq dest
  /\ (pc = "extract_return" /\ extractResult = "ok") =>
       \A item \in items :
         /\ item \notin tempTree
         /\ \A q \in SelectedFiles(item) : Rebase(item, q) \notin dest0

\* the selected file readme met the readme of the destination
C11_Witness ==
  /\ dest0 = {<<"readme">>}
  /\ items = {<<"readme">>}
  /\ extractResult = "PlacementError"
  /\ dest = dest0
  /\ pc = "done"

\* C12: the directory the extractor moves the files into is the
\* canonicalized current directory, the one the patch and the replace
\* specs are run against.
C12_SameDirectory ==
  /\ extractDir # "none" => extractDir = cwd
  /\ patchDir # "none" => patchDir = extractDir
  /\ \A i \in 1..Len(specLog) : specLog[i].dir = ModPath(extractDir)

Returned(kinds) == rpc = "returned" /\ source.kind \in kinds

\* the directory of the manifest, the game directory when it has none
ManifestRoot ==
  IF manifestPath.comps = <<>> THEN GameDirPath
  ELSE [abs |-> manifestPath.abs,
        comps |-> SubSeq(Components(manifestPath), 1,
                         Len(Components(manifestPath)) - 1)]

LocalModsPath == IF localMods = None THEN EmptyPath ELSE localMods[1]

\* C14: for a Local source retrieve_location yields manifest root /
\* local_mods / path, each cleaned, and never calls the downloader; it
\* fails exactly when local_mods is absolute or (cleaned) starts with "..",
\* or the path is absolute.
C14_LocalResolution ==
  /\ source.kind = "Local" => downloads = <<>>
  /\ Returned({"Local"}) =>
       IF \/ LocalModsPath.abs
          \/ StartsWithParent(Clean(LocalModsPath))
          \/ source.local.abs
       THEN retrieved = Err
       ELSE /\ IsOk(retrieved)
            /\ PathEq(retrieved[2],
                      [abs |-> ManifestRoot.abs,
                       comps |-> Clean(ManifestRoot).comps
                                 \o Clean(LocalModsPath).comps
                                 \o Clean(source.local).comps])
  /\ (Returned({"Local"}) /\ LocalModsPath.comps # <<>>
        /\ Head(LocalModsPath.comps) = "..") => retrieved = Err

\* /home/me/my_install.yaml, my_mods, some/path/file.zip
C14_Witness ==
  /\ Returned({"Local"})
  /\ manifestPath = Abs(<<"home", "me", "my_install.yaml">>)
  /\ localMods = Some(Rel(<<"my_mods">>))
  /\ source.local = Rel(<<"some", "path", "file.zip">>)
  /\ retrieved = Ok(Abs(<<"home", "me", "my_mods", "some", "path", "file.zip">>))

\* C15: for Http and Github sources the downloader is called once, with
\* the cache root joined with save_subdir() as directory and
\* save_name(module_name) as file name, and retrieve_location returns what
\* the downloader yields; when save_subdir or save_name fails,
\* retrieve_location fails and the downloader is not called.
C15_DownloaderCall ==
  /\ (source.kind \in {"Http", "Github"} /\ rpc # "returned") => downloads = <<>>
  /\ (source.kind \in {"Http", "Github"} /\ subdirRes # NotYet) =>
       subdirRes = save_subdir(source)
  /\ (source.kind \in {"Http", "Github"} /\ nameRes # NotYet) =>
       nameRes = save_name(source, moduleName)
  /\ Returned({"Http", "Github"}) =>
       IF IsOk(subdirRes) /\ IsOk(nameRes)
       THEN /\ Len(downloads) = 1
            /\ PathEq(downloads[1].dest,
                      [abs |-> TRUE, comps |-> CachePath.comps \o subdirRes[2].comps])
            /\ downloads[1].name = nameRes[2]
            /\ retrieved = downloads[1].yield
       ELSE /\ downloads = <<>>
            /\ retrieved = Err

\* a release asset of u/r, downloaded into /cache_path/github/u/r
C15_Witness ==
  /\ Returned({"Github"})
  /\ source.descriptor.kind = "Release"
  /\ source.repository = "r"
  /\ Len(downloads) = 1
  /\ downloads[1].dest = Abs(<<"cache_path", "github", "u", "r">>)
  /\ downloads[1].name = <<"repository_v1.zip">>
  /\ retrieved = Ok(Rel(<<"cache_dir", "directory", "filename.zip">>))

\* C16: for an Absolute source retrieve_location yields the configured
\* path as written and never calls the downloader.
C16_AbsoluteLiteral ==
  /\ source.kind = "Absolute" => downloads = <<>>
  /\ Returned({"Absolute"}) => retrieved = Ok(source.path)

\* a path with "." and ".." comes back as written
C16_Witness ==
  /\ Returned({"Absolute"})
  /\ source.path = Abs(<<"some", ".", "x", "..", "file.zip">>)
  /\ retrieved = Ok(Abs(<<"some", ".", "x", "..", "file.zip">>))
  /\ Clean(source.path) # source.path

\* C17: save_name of an Http source is the rename when there is one;
\* without a rename it is the percent-decoded last path segment of the url,
\* and an unparsable url or a url without path segments is an error: the
\* name is never a successful empty name.
C17_HttpSaveName ==
  (source.kind = "Http" /\ nameRes # NotYet) =>
    IF source.rename # None THEN nameRes = Ok(source.rename[1])
    ELSE LET url == UrlParse(source.http)
         IN IF ~url.ok \/ url.segments = None THEN nameRes = Err
            ELSE /\ nameRes # Ok(<<>>)
                 /\ IsOk(nameRes) =>
                      nameRes[2] = PercentDecode(url.segments[1][Len(url.segments[1])])

\* C18: save_name of a Github source is the asset for a Release and
\* module_name-ref.zip for a Commit, Branch or Tag; for Absolute and Local
\* sources it is the empty path; it does not fail for these sources.
C18_GithubSaveName ==
  /\ (source.kind = "Github" /\ nameRes # NotYet) =>
       IF source.descriptor.kind = "Release"
       THEN nameRes = Ok(source.descriptor.ref)
       ELSE nameRes = Ok(<<moduleName, "-">> \o source.descriptor.ref \o <<".zip">>)
  /\ (source.kind \in {"Absolute", "Local"} /\ nameRes # NotYet) =>
       nameRes = Ok(<<>>)
  /\ (source.kind \in {"Github", "Absolute", "Local"}
        /\ rpc \in {"match", "returned"}) => IsOk(nameRes)

\* module m2, tag v2
C18_Witness ==
  /\ source.kind = "Github"
  /\ source.descriptor = [kind |-> "Tag", ref |-> <<"v2">>]
  /\ moduleName = "m2"
  /\ nameRes = Ok(<<"m2", "-", "v2", ".zip">>)

\* C19: default_strip_leading is 1 for a Github source with a Commit,
\* Branch or Tag descriptor and 0 for a Github Release and for Http,
\* Absolute and Local sources.
C19_DefaultStrip ==
  stripDefault # None =>
    /\ (source.kind = "Github"
          /\ source.descriptor.kind \in {"Commit", "Branch", "Tag"}) =>
         stripDefault = Some(1)
    /\ (source.kind = "Github" /\ source.descriptor.kind = "Release") =>
         stripDefault = Some(0)
    /\ source.kind \in {"Http", "Absolute", "Local"} => stripDefault = Some(0)

\* a release asset is not stripped
C19_Witness ==
  /\ source.kind = "Github"
  /\ source.descriptor.kind = "Release"
  /\ stripDefault = Some(0)

\* C20: save_subdir is http/<host> for an Http source and fails when the
\* url is unparsable or has no host; it is github/<user>/<repository> for
\* a Github source, whatever the descriptor; it is the empty path for
\* Absolute and Local sources.
C20_SaveSubdir ==
  subdirRes # NotYet =>
    /\ source.kind = "Http" =>
         LET url == UrlParse(source.http)
         IN IF ~url.ok \/ url.host = None THEN subdirRes = Err
            ELSE subdirRes = Ok(Rel(<<"http", url.host[1]>>))
    /\ source.kind = "Github" =>
         /\ subdirRes = Ok(Rel(<<"github", source.github_user, source.repository>>))
         /\ \A d \in Descriptors :
              save_subdir([source EXCEPT !.descriptor = d]) = subdirRes
    /\ source.kind \in {"Absolute", "Local"} => subdirRes = Ok(EmptyPath)

\* http://example.com/dir/pkg_v1.zip is kept under http/example.com
C20_Witness ==
  /\ source.kind = "Http"
  /\ source.http = <<"http:", "//", "example.com", "/", "dir", "/", "pkg_v1.zip">>
  /\ subdirRes = Ok(Rel(<<"http", "example.com">>))


\* the indices of the origins of a kind
OriginsOf(kind) == {i \in 1..Len(origins) : origins[i].kind = kind}
\* the target directory was created, or looked for, by the call
TargetEnsured == \E k \in 1..Len(fsAccess) : fsAccess[k][1] = "create_dir_all"
\* the call has left the target as it was
TargetUntouched == target = target0 /\ copyLog = <<>> /\ ~TargetEnsured
\* the call has returned a failure
InstallFailed == ipc = "done" /\ installed # NotYet /\ ~IsOk(installed)

\* local_files is absolute or, cleaned, starts with ".."
BadLocalFiles ==
  /\ localFiles # None
  /\ localFiles[1].abs \/ StartsWithParent(Clean(localFiles[1]))

C22_AbsoluteBase ==
  \A i \in OriginsOf("Absolute") :
    i <= Len(bases) =>
      LET canon == Canonicalize(origins[i].path)
      IN /\ IsOk(bases[i]) =>
              /\ bases[i] = canon
              /\ canon[2].abs
              /\ canon[2] \in ExistingDirs
              /\ canon[2].comps # <<>>
         /\ (IsOk(canon) /\ canon[2].comps # <<>>) => IsOk(bases[i])
         /\ (IsOk(canon) /\ canon[2] = Root) =>
              /\ bases[i] = Fail("is not allowed as base")
              /\ TargetUntouched
              /\ ipc = "done" => InstallFailed

\* /link is a link to the root
C22_Witness ==
  /\ InstallFailed
  /\ Len(bases) >= 1
  /\ origins[1].kind = "Absolute"
  /\ origins[1].path = RootLink
  /\ bases[1] = Fail("is not allowed as base")
  /\ target = target0

\* C23: the files are copied origin after origin in list order; a failed
\* copy is the last one attempted and fails the call, so no origin after
\* it is copied; what was copied before stays in the target.
C23_FirstFailureAborts ==
  /\ \A k \in 1..Len(copyLog) :
       /\ copyLog[k].origin \in 1..Len(origins)
       /\ copyLog[k].origin <= current
       /\ k > 1 => copyLog[k - 1].origin <= copyLog[k].origin
       /\ copyLog[k].outcome = "err" =>
            /\ k = Len(copyLog)
            /\ copyLog[k].origin = current
            /\ InstallFailed
       /\ copyLog[k].outcome = "ok" => copyLog[k].dst \in FilesIn(target)
  /\ installed = Fail("copy_items") => InstallFailed
  /\ (ipc = "done" /\ IsOk(installed)) =>
       /\ current = Len(origins) + 1
       /\ \A k \in 1..Len(copyLog) : copyLog[k].outcome = "ok"

\* the first origin was copied, a copy of the second one failed
C23_Witness ==
  /\ Len(origins) = 2
  /\ Len(copyLog) >= 2
  /\ copyLog[1].origin = 1
  /\ copyLog[1].outcome = "ok"
  /\ copyLog[Len(copyLog)].origin = 2
  /\ copyLog[Len(copyLog)].outcome = "err"
  /\ InstallFailed
  /\ <<copyLog[1].dst, copyLog[1].src>> \in target

\* the copy that wrote last to the destination of attempt k
LastTo(k) == \A j \in (k + 1)..Len(copyLog) : copyLog[j].dst # copyLog[k].dst

\* C24: without allow_overwrite a file the target has is never modified
\* and a copy onto a file that exists fails the call; with allow_overwrite
\* every copy succeeds and a file that exists gets the content of the
\* origin's file.  Both hold with and without a glob.
C24_OverwriteHonored ==
  /\ ~allowOverwrite =>
       /\ target0 \subseteq target
       /\ \A k \in 1..Len(copyLog) :
            /\ copyLog[k].existed => (copyLog[k].outcome = "err" /\ InstallFailed)
            /\ copyLog[k].outcome = "err" => copyLog[k].existed
  /\ allowOverwrite =>
       \A k \in 1..Len(copyLog) :
         /\ copyLog[k].outcome = "ok"
         /\ LastTo(k) => <<copyLog[k].dst, copyLog[k].src>> \in target
  /\ \A path \in FilesIn(target) : Cardinality({e \in target : e[1] = path}) = 1

\* b/readme of the target was replaced by readme of /data/b
C24_Witness ==
  /\ allowOverwrite
  /\ target0 = {<<<<"b", "readme">>, Old>>}
  /\ target = {<<<<"b", "readme">>, <<"data", "b", "readme">>>>}
  /\ Len(copyLog) >= 1
  /\ origins[1].glob = None
  /\ copyLog[1].existed
  /\ ipc = "done"
  /\ IsOk(installed)

\* the directory the Local origins are resolved in
LocalRoot ==
  Clean(Join(Clean(FileInstaller_get_manifest_root),
             IF localFiles = None THEN EmptyPath ELSE Clean(localFiles[1])))

\* C25: a Local origin resolves only if its path is not absolute and,
\* cleaned, does not start with ".."; every resolved path lies inside
\* manifest root / local_files.
C25_LocalInsideRoot ==
  \A i \in OriginsOf("Local") :
    (i <= Len(bases) /\ IsOk(bases[i])) =>
      /\ ~origins[i].path.abs
      /\ ~StartsWithParent(Clean(origins[i].path))
      /\ LET resolved == Clean(bases[i][2]).comps
         IN /\ Len(resolved) >= Len(LocalRoot.comps)
            /\ SubSeq(resolved, 1, Len(LocalRoot.comps)) = LocalRoot.comps

C27_ResolveBeforeTouch ==
  /\ ~TargetUntouched => (Len(bases) = Len(origins) /\ Errors(bases) = {})
  /\ Errors(bases) # {} =>
       /\ TargetUntouched
       /\ ipc \in {"get_origin_base", "get_file_globs", "done"}
       /\ ipc = "done" => (InstallFailed /\ Len(bases) = Len(origins))

\* the first origin resolved, the second one did not
C27_Witness ==
  /\ Len(origins) = 2
  /\ Len(bases) = 2
  /\ IsOk(bases[1])
  /\ ~IsOk(bases[2])
  /\ BaseTreeOf(bases[1][2]) # None
  /\ InstallFailed
  /\ targetAbsent0
  /\ target = {}
  /\ ~TargetEnsured

====
